---- MODULE Spec2Model ----
(***************************************************************************)
(* Model of the cargo capacity dashboard (src/app.py): the process-wide    *)
(* Flight Query Store written by POST /update-data and POST /reset-data,   *)
(* and the refresh callback update_graph that reads it field by field,     *)
(* queries the database, reconciles Actual and Pred records and builds the *)
(* chart.                                                                  *)
(***************************************************************************)
EXTENDS Integers, Sequences, FiniteSets, TLC

VARIABLES
    current_flight_data,  \* the global dict (app.py:16)
    today,                \* the calendar day the clock shows
    environ,              \* the DB_* environment variables that are set
    pc,                   \* where update_graph stands
    f_no, f_date, origin, destination,  \* update_graph's locals (136-139)
    day_of_query,         \* update_graph's reading of date.today() (154)
    combined_df,          \* update_graph's combined_df (232)
    dbTouched,            \* what the running tick did to the database
    raisedAt,             \* the stage of the running tick that raised
    result,               \* what update_graph returned
    response,             \* status of the last POST response
    calls,                \* number of POST calls so far
    lastCall,             \* history: the most recent successful POST
    seen,                 \* history: stored values present during the tick's reads
    quiet                 \* history: no write since the tick's first read

vars == <<current_flight_data, today, environ, pc, f_no, f_date, origin,
          destination, day_of_query, combined_df, dbTouched, raisedAt, result,
          response, calls, lastCall, seen, quiet>>

storeVars == <<current_flight_data, response, calls, lastCall>>
tickVars == <<pc, f_no, f_date, origin, destination, day_of_query,
              combined_df, dbTouched, raisedAt, result>>

-----------------------------------------------------------------------------
(* Bounds and program constants *)

MaxCalls == 2        \* POST calls in one behaviour
MaxDayAdvance == 1   \* midnights that pass in one behaviour
MaxRows == 4         \* rows the database holds (SpecPipe)
SpecRows == 1        \* rows the database holds (Spec)
Today0 == 20         \* the day the process starts
WindowDays == 15     \* timedelta(days=15)
Padding == 2000      \* max_weight + 2000
BagMilliVolume == 67 \* 0.067 cubic metres per bag, in thousandths

-----------------------------------------------------------------------------
(* Values *)

Keys == {"flight_no", "flight_date", "flight_origin", "flight_destination"}
EnvKeys == {"DB_SERVER", "DB_NAME", "DB_USER", "DB_PASSWORD"}

\* A flight_date value: an ISO date string, an ISO date-time string, a string
\* that is no date, a JSON number, or the empty string.
IsoDate(d) == [form |-> "iso", day |-> d]
IsoDateTime(d) == [form |-> "isoT", day |-> d]
BadDate == [form |-> "bad", day |-> 0]
NumDate == [form |-> "num", day |-> 1]
EmptyDate == [form |-> "empty", day |-> 0]
UnsetDate == [form |-> "unset", day |-> 0]
Unset == "<unset>"

\* Python truthiness of the stored values (all([...]), line 142)
Truthy(v) == v # ""
TruthyDate(v) == v # EmptyDate

\* datetime.now().date().isoformat()
TodayIso(d) == IsoDate(d)

\* What a key of the JSON body holds when the body lacks the key.
Absent == "<absent>"
AbsentDate == [form |-> "absent", day |-> 0]

QueryDay == Today0 + 1

\* JSON objects a caller posts: every key present or absent.
Payloads ==
    [flight_no : {"F1", Absent},
     flight_date : {IsoDate(QueryDay), AbsentDate},
     flight_origin : {"O1", Absent},
     flight_destination : {"D1", Absent}]

\* Request bodies: a JSON object, a JSON array, or bytes that are no JSON.
NoData == [flight_no |-> Absent, flight_date |-> AbsentDate,
           flight_origin |-> Absent, flight_destination |-> Absent]
Bodies ==
    {[kind |-> "object", data |-> d] : d \in Payloads}
        \cup {[kind |-> "array", data |-> NoData],
              [kind |-> "malformed", data |-> NoData]}

\* dict.get(key, default)
AbsentOf(key) == IF key = "flight_date" THEN AbsentDate ELSE Absent
Get(data, key, default) ==
    IF data[key] = AbsentOf(key) THEN default ELSE data[key]

\* The dict literal of lines 16-21 and 114-119, built on day d.
DefaultFlightData(d) ==
    [flight_no |-> "", flight_date |-> TodayIso(d),
     flight_origin |-> "", flight_destination |-> ""]

\* ReceivedFlightData that keeps the stored value of a key the body lacks.
ReceivedFlightDataMerged(data, d) ==
    [flight_no |-> Get(data, "flight_no", current_flight_data.flight_no),
     flight_date |-> Get(data, "flight_date", current_flight_data.flight_date),
     flight_origin |-> Get(data, "flight_origin",
                           current_flight_data.flight_origin),
     flight_destination |-> Get(data, "flight_destination",
                                current_flight_data.flight_destination)]

\* The dict literal of lines 92-97, built from the body's object on day d.
ReceivedFlightData(data, d) ==
    [flight_no |-> Get(data, "flight_no", ""),
     flight_date |-> Get(data, "flight_date", TodayIso(d)),
     flight_origin |-> Get(data, "flight_origin", ""),
     flight_destination |-> Get(data, "flight_destination", "")]

\* request.get_json() and the data.get calls succeed only on a JSON object.
BodyParses(body) == body.kind = "object"

Complete(q) ==
    /\ Truthy(q.flight_no)
    /\ TruthyDate(q.flight_date)
    /\ Truthy(q.flight_origin)
    /\ Truthy(q.flight_destination)

\* The tick is between its first and its last read of the global.
Reading == pc \in {"l137", "l138", "l139"}

\* The store as a write leaves it, and the history of that write.
Store(new, kind, data) ==
    /\ current_flight_data' = new
    /\ response' = 200
    /\ lastCall' = [kind |-> kind, data |-> data, day |-> today,
                    prevComplete |-> Complete(current_flight_data)]
    /\ seen' = IF Reading THEN seen \cup {new} ELSE seen
    /\ quiet' = FALSE

-----------------------------------------------------------------------------
(* POST /update-data and POST /reset-data *)

update_data(body) ==
    /\ calls < MaxCalls
    /\ calls' = calls + 1
    /\ IF BodyParses(body)
         THEN Store(ReceivedFlightData(body.data, today), "update", body.data)
         ELSE /\ response' = 400
              /\ UNCHANGED <<current_flight_data, lastCall, seen, quiet>>
    /\ UNCHANGED <<today, environ, tickVars>>

reset_data ==
    /\ calls < MaxCalls
    /\ calls' = calls + 1
    /\ Store(DefaultFlightData(today), "reset", NoData)
    /\ UNCHANGED <<today, environ, tickVars>>

\* Midnight passes.
AdvanceDay ==
    /\ today < Today0 + MaxDayAdvance
    /\ today' = today + 1
    /\ UNCHANGED <<environ, storeVars, tickVars, seen, quiet>>

-----------------------------------------------------------------------------
(* update_graph: the four reads of the global and the completeness check *)

\* Field with the origin and destination keys exchanged.
FieldSwapped(key) ==
    IF key = "flight_origin" THEN current_flight_data["flight_destination"]
    ELSE IF key = "flight_destination" THEN current_flight_data["flight_origin"]
    ELSE current_flight_data[key]

\* current_flight_data[key]: one read of the global, then of the dict.
Field(key) == current_flight_data[key]

ReadFlightNo ==
    /\ pc \in {"idle", "done"}
    /\ f_no' = Field("flight_no")
    /\ f_date' = UnsetDate
    /\ origin' = Unset
    /\ destination' = Unset
    /\ day_of_query' = 0
    /\ combined_df' = {}
    /\ dbTouched' = {}
    /\ raisedAt' = "none"
    /\ result' = [kind |-> "pending"]
    /\ seen' = {current_flight_data}
    /\ quiet' = TRUE
    /\ pc' = "l137"
    /\ UNCHANGED <<today, environ, storeVars>>

ReadFlightDate ==
    /\ pc = "l137"
    /\ f_date' = Field("flight_date")
    /\ seen' = seen \cup {current_flight_data}
    /\ pc' = "l138"
    /\ UNCHANGED <<today, environ, storeVars, quiet, f_no, origin, destination,
                   day_of_query, combined_df, dbTouched, raisedAt, result>>

ReadOrigin ==
    /\ pc = "l138"
    /\ origin' = Field("flight_origin")
    /\ seen' = seen \cup {current_flight_data}
    /\ pc' = "l139"
    /\ UNCHANGED <<today, environ, storeVars, quiet, f_no, f_date, destination,
                   day_of_query, combined_df, dbTouched, raisedAt, result>>

ReadDestination ==
    /\ pc = "l139"
    /\ destination' = Field("flight_destination")
    /\ seen' = seen \cup {current_flight_data}
    /\ pc' = "l142"
    /\ UNCHANGED <<today, environ, storeVars, quiet, f_no, f_date, origin,
                   day_of_query, combined_df, dbTouched, raisedAt, result>>

-----------------------------------------------------------------------------
(* The database: three tables of rows *)

\* A column value: a number, NULL, or text that is no number.
Num(n) == [k |-> "num", n |-> n]
Null == [k |-> "null", n |-> 0]
Text == [k |-> "str", n |-> 0]

\* A text column that holds NULL.
NullType == "<null>"

\* A datetime column value counts half days: midnight and noon of a day.
Midnight(d) == 2 * d
Noon(d) == 2 * d + 1

\* pd.to_datetime(...).dt.date
ToDate(stamp) == stamp \div 2

CT(id, flt, stamp, org, dst, w, v) ==
    [ID |-> id, FltNo |-> flt, FltDate |-> stamp, Origin |-> org,
     Destination |-> dst, ReportWeight |-> w, ReportVolume |-> v]

ASRF(id, flt, org, dst, stamp, type, dw) ==
    [ID |-> id, FlightID |-> flt, Source |-> org, Dest |-> dst,
     FlightSchDept |-> stamp, AirCraftType |-> type, DepartedWeight |-> dw]

PAX(id, flt, org, dst, stamp, pax, bags, under, hold) ==
    [ID |-> id, FlightID |-> flt, Source |-> org, Dest |-> dst,
     FlightSchDept |-> stamp, ExpectedPAXCount |-> pax, AVGBagPerPAX |-> bags,
     Underload |-> under, CapacityVolumeHold |-> hold]

\* Rows dbo.CapacityTransaction may hold.
CapacityRows ==
    {CT(1, "F1", Midnight(Today0), "O1", "D1", Num(100), Num(10)),
     CT(2, "F1", Noon(Today0 + 1), "O1", "D1", Num(200), Null),
     CT(3, "F1", Midnight(Today0 + 1), "O1", "D1", Null, Num(40)),
     CT(4, "F1", Midnight(Today0), "O2", "D1", Num(800), Num(80)),
     CT(5, "F2", Midnight(Today0), "O1", "D1", Num(1600), Num(160)),
     CT(6, "F1", Noon(Today0 - 1), "O1", "D1", Num(3200), Num(320)),
     CT(7, "F1", Midnight(Today0 + 1), "O1", "D2", Num(6400), Num(640))}

\* Rows dbo.AirlineScheduleRouteForecast may hold.
ScheduleRows ==
    {ASRF(1, "F1", "O1", "D1", Noon(Today0 - 1), "320", Num(50)),
     ASRF(2, "F1", "O1", "D1", Midnight(Today0 - 2), "77W", Null),
     ASRF(3, "F1", "O1", "D1", Noon(Today0 - 1), "323", Num(70)),
     ASRF(4, "F1", "O1", "D1", Midnight(Today0 - WindowDays), "320", Num(90)),
     ASRF(5, "F1", "O1", "D1", Midnight(Today0), "320", Num(110)),
     ASRF(6, "F1", "O1", "D1", Noon(Today0 - 1), "320", Text),
     ASRF(7, "F1", "O2", "D1", Noon(Today0 - 1), "320", Num(130))}

\* Rows dbo.AirlinePAX may hold.
PaxRows ==
    {PAX(1, "F1", "O1", "D1", Noon(Today0 - 1), Num(100), Num(1), Num(7), Num(30)),
     PAX(2, "F1", "O1", "D1", Midnight(Today0 - 2), Num(50), Num(1), Null, Num(10)),
     PAX(3, "F1", "O1", "D1", Noon(Today0 - 1), Num(250), Num(2), Num(9), Num(40)),
     PAX(4, "F1", "O1", "D1", Noon(Today0 - 1), Null, Num(1), Num(11), Num(30)),
     PAX(5, "F1", "O1", "D1", Midnight(Today0 - WindowDays), Num(100), Num(1), Num(13), Null),
     PAX(6, "F1", "O1", "D1", Midnight(Today0), Num(100), Num(1), Num(15), Num(30)),
     PAX(7, "F1", "O2", "D1", Noon(Today0 - 1), Num(100), Num(1), Num(17), Num(30)),
     PAX(8, "F1", "O1", "D1", Midnight(Today0 - 1), Num(100), Num(1), Num(19), Num(30))}

RECURSIVE SubsetsUpTo(_, _)
SubsetsUpTo(S, n) ==
    IF n <= 0 THEN {{}}
    ELSE LET smaller == SubsetsUpTo(S, n - 1)
         IN  smaller \cup {T \cup {x} : T \in smaller, x \in S}

\* The databases that hold at most n rows.
Databases(n) ==
    UNION {UNION {{[CapacityTransaction |-> c,
                    AirlineScheduleRouteForecast |-> a,
                    AirlinePAX |-> x] :
                      x \in SubsetsUpTo(PaxRows,
                                        n - Cardinality(c) - Cardinality(a))} :
                  a \in SubsetsUpTo(ScheduleRows, n - Cardinality(c))} :
           c \in SubsetsUpTo(CapacityRows, n)}

PipeDatabases == Databases(MaxRows)
SpecDatabases == Databases(SpecRows)

-----------------------------------------------------------------------------
(* update_graph, lines 146-235: parse, fetch, filter, reconcile *)

\* Lines 148-151: f_date.split('T')[0] parsed with %Y-%m-%d; a value that is
\* no string is kept as it is.
ParseDate(d) ==
    CASE d.form = "iso" -> [ok |-> TRUE, isDate |-> TRUE, day |-> d.day]
      [] d.form = "isoT" -> [ok |-> TRUE, isDate |-> TRUE, day |-> d.day]
      [] d.form = "num" -> [ok |-> TRUE, isDate |-> FALSE, day |-> d.day]
      [] OTHER -> [ok |-> FALSE, isDate |-> FALSE, day |-> 0]

\* Line 33: all([server, database, username, password])
HasConnectionDetails(env) == EnvKeys \subseteq env

\* Caught without the except clause: the exception leaves update_graph.
Uncaught(text) == [kind |-> "unhandled", text |-> text]

\* Lines 400-401: the except clause of update_graph.
Caught(text) == [kind |-> "error", text |-> text]

\* Line 155
FifteenDaysBefore(doq) == doq - WindowDays

\* Lines 162-163: SELECT * FROM dbo.AirlinePAX WHERE FlightSchDept >= ?
Pax_load(db, doq) ==
    {x \in db.AirlinePAX : x.FlightSchDept >= Midnight(FifteenDaysBefore(doq))}

\* Lines 166-174: the schedule query.
ScheduleQuery(db, org, dst, flt, doq) ==
    {a \in db.AirlineScheduleRouteForecast :
        /\ a.Source = org
        /\ a.Dest = dst
        /\ a.FlightID = flt
        /\ a.AirCraftType \notin {"323", "32S", "ATR"}
        /\ a.AirCraftType # NullType
        /\ a.FlightSchDept >= Midnight(FifteenDaysBefore(doq))}

\* Lines 177-184: left merge on the four key columns, then dropna on
\* ExpectedPAXCount: the pairs of a schedule row and a passenger row with the
\* same key and a passenger count.
Merged(asrf, pax) ==
    UNION {{[a |-> a, p |-> p] :
                p \in {x \in pax :
                          /\ x.FlightID = a.FlightID
                          /\ x.Source = a.Source
                          /\ x.Dest = a.Dest
                          /\ x.FlightSchDept = a.FlightSchDept
                          /\ x.ExpectedPAXCount.k = "num"}} :
           a \in asrf}

\* Line 187: astype(float) raises on text that is no number.
AstypeRaises(merged) == \E m \in merged : m.a.DepartedWeight.k = "str"

\* fillna(0)
FillNa0(v) == IF v.k = "num" THEN v.n ELSE 0

\* round(0) of a value given in thousandths: to the nearest whole, ties to
\* the even one.
RoundHalfEven(milli) ==
    LET q == milli \div 1000
        r == milli % 1000
    IN  IF r < 500 THEN q
        ELSE IF r > 500 THEN q + 1
        ELSE IF q % 2 = 0 THEN q ELSE q + 1

\* Line 188
TotalCargo(m) == Num(FillNa0(m.a.DepartedWeight) + FillNa0(m.p.Underload))

\* Lines 189-192
ReportVolume(m) ==
    IF m.p.CapacityVolumeHold.k = "num" /\ m.p.AVGBagPerPAX.k = "num"
        THEN Num(RoundHalfEven(
                 1000 * m.p.CapacityVolumeHold.n
                   - m.p.ExpectedPAXCount.n * m.p.AVGBagPerPAX.n * BagMilliVolume))
        ELSE Null

Record(src, flt, date, org, dst, w, v, from) ==
    [src |-> src, FltNo |-> flt, Date |-> date, Origin |-> org,
     Destination |-> dst, Weight |-> w, Volume |-> v, Data_From |-> from]

\* ActualInRange with <= current_date.
ActualThroughToday(d, start_date, current_date) ==
    d >= start_date /\ d <= current_date

\* Line 218: start_date <= FlightSchDept < current_date
ActualInRange(d, start_date, current_date) ==
    d >= start_date /\ d < current_date

\* PredInRange without the upper bound.
PredFromToday(d, current_date, f_date_dt) == d >= current_date

\* Line 207: current_date <= FltDate <= f_date
PredInRange(d, current_date, f_date_dt) ==
    d >= current_date /\ d <= f_date_dt

\* Lines 199, 203, 207-215
pred_filtered(db, flt, f_date_dt, current_date) ==
    {Record(<<"CT", r.ID, 0>>, r.FltNo, ToDate(r.FltDate), r.Origin,
            r.Destination, r.ReportWeight, r.ReportVolume, "Pred") :
        r \in {c \in db.CapacityTransaction :
                  /\ c.FltNo = flt
                  /\ PredInRange(ToDate(c.FltDate), current_date, f_date_dt)}}

\* Lines 200, 204, 218-229
asrf_filtered(merged, flt, f_date_dt, current_date) ==
    {Record(<<"ASRF", m.a.ID, m.p.ID>>, m.a.FlightID, ToDate(m.a.FlightSchDept),
            m.a.Source, m.a.Dest, TotalCargo(m), ReportVolume(m), "Actual") :
        m \in {x \in merged :
                  /\ x.a.FlightID = flt
                  /\ ActualInRange(ToDate(x.a.FlightSchDept),
                                   f_date_dt - WindowDays, current_date)}}

RECURSIVE SumOf(_, _)
SumOf(rows, col) ==
    IF rows = {} THEN 0
    ELSE LET r == CHOOSE x \in rows : TRUE
         IN  FillNa0(r[col]) + SumOf(rows \ {r}, col)

RECURSIVE SortedDates(_)
SortedDates(S) ==
    IF S = {} THEN << >>
    ELSE LET least == CHOOSE x \in S : \A y \in S : x <= y
         IN  <<least>> \o SortedDates(S \ {least})

\* Line 235: groupby(['Date', 'Data_From'])[['Weight', 'Volume']].sum()
\* .unstack().sort_index(): one row per date, one column per metric and
\* provenance present, NaN where the date has no record of the provenance.
DailyData(df) ==
    LET dates == {r.Date : r \in df}
        provs == {r.Data_From : r \in df}
        group(d, p) == {r \in df : r.Date = d /\ r.Data_From = p}
    IN  [index |-> SortedDates(dates),
         columns |-> provs,
         cell |-> [m \in {"Weight", "Volume"}, p \in provs, d \in dates |->
                      IF group(d, p) = {} THEN Null
                      ELSE Num(SumOf(group(d, p), m))]]

-----------------------------------------------------------------------------
(* update_graph, lines 237-398: the figure *)

\* daily_data[metric][prov], in the order of the index.
Column(dd, m, p) == [i \in 1..Len(dd.index) |-> dd.cell[m, p, dd.index[i]]]

\* daily_data[metric][prov].dropna().index
DropNaIndex(dd, m, p) ==
    SelectSeq(dd.index, LAMBDA d : dd.cell[m, p, d].k = "num")

Trace(name, x, y) == [name |-> name, x |-> x, y |-> y]

\* Lines 246-265 and 284-303: one line per metric and provenance present.
SeriesTraces(dd) ==
    {Trace(n[3], dd.index, Column(dd, n[1], n[2])) :
        n \in {t \in {<<"Weight", "Actual", "Actual Weight">>,
                      <<"Weight", "Pred", "Predicted Weight">>,
                      <<"Volume", "Actual", "Actual Volume">>,
                      <<"Volume", "Pred", "Predicted Volume">>} :
                 t[2] \in dd.columns}}

\* TransitionEnds with the last Pred point, index[-1], in place of the first.
TransitionEndsLastPred(actual_series, pred_series) ==
    <<actual_series[Len(actual_series)], pred_series[Len(pred_series)]>>

\* The endpoints of a transition line: the last Actual point, the first Pred
\* point (lines 273-274 and 311-312).
TransitionEnds(actual_series, pred_series) ==
    <<actual_series[Len(actual_series)], pred_series[1]>>

\* Lines 267-280 and 305-318: the transition line of one metric.
Transition(dd, m, name) ==
    IF "Actual" \in dd.columns /\ "Pred" \in dd.columns
        THEN LET actual_series == DropNaIndex(dd, m, "Actual")
                 pred_series == DropNaIndex(dd, m, "Pred")
             IN  IF actual_series # << >> /\ pred_series # << >>
                     THEN LET x == TransitionEnds(actual_series, pred_series)
                          IN  {Trace(name, x, <<dd.cell[m, "Actual", x[1]],
                                                dd.cell[m, "Pred", x[2]]>>)}
                     ELSE {}
        ELSE {}

RECURSIVE MaxOf(_, _)
MaxOf(S, floor) ==
    IF S = {} THEN floor
    ELSE LET v == CHOOSE x \in S : TRUE
         IN  MaxOf(S \ {v}, IF v > floor THEN v ELSE floor)

\* Lines 320-326
MaxWeight(dd) ==
    MaxOf({dd.cell["Weight", p, dd.index[i]].n :
              p \in dd.columns, i \in 1..Len(dd.index)}, 0) + Padding

\* Lines 358-382: the vertical line and the annotation at current_date.
TodayMarker(dd, current_date) ==
    [shapes |-> {[x0 |-> current_date, x1 |-> current_date, y0 |-> 0,
                  y1 |-> MaxWeight(dd)]},
     annotations |-> {[x |-> current_date, y |-> MaxWeight(dd),
                       text |-> "Today"]}]

Figure(dd, current_date) ==
    [traces |-> SeriesTraces(dd)
                  \cup Transition(dd, "Weight", "Weight Transition")
                  \cup Transition(dd, "Volume", "Volume Transition"),
     shapes |-> TodayMarker(dd, current_date).shapes,
     annotations |-> TodayMarker(dd, current_date).annotations]

\* Lines 232-235: pd.concat([pred_filtered, asrf_filtered])
Combined(db, flt, f_date_dt, org, dst, doq) ==
    pred_filtered(db, flt, f_date_dt, doq)
        \cup asrf_filtered(Merged(ScheduleQuery(db, org, dst, flt, doq),
                                  Pax_load(db, doq)),
                           flt, f_date_dt, doq)

\* Lines 238-239: daily_data.empty
Empty(dd) == dd.index = << >>

Placeholder(kind) == [kind |-> kind]

Chart(dd, current_date) ==
    [kind |-> "chart", daily_data |-> dd, figure |-> Figure(dd, current_date)]

-----------------------------------------------------------------------------
(* update_graph: the steps after the reads *)

\* An exception raised inside the try block at the given stage.
Raise(stage, text) ==
    /\ raisedAt' = stage
    /\ result' = Caught(text)
    /\ pc' = "done"

\* AllPresent with any() in place of all().
AnyPresent(no, dt, org, dst) ==
    Truthy(no) \/ TruthyDate(dt) \/ Truthy(org) \/ Truthy(dst)

\* Line 142: all([f_no, f_date, origin, destination])
AllPresent(no, dt, org, dst) ==
    Truthy(no) /\ TruthyDate(dt) /\ Truthy(org) /\ Truthy(dst)

\* Lines 142-144
CheckComplete ==
    /\ pc = "l142"
    /\ IF AllPresent(f_no, f_date, origin, destination)
         THEN pc' = "l146" /\ result' = result
         ELSE pc' = "done" /\ result' = Placeholder("waiting")
    /\ seen' = {}
    /\ UNCHANGED <<today, environ, storeVars, quiet, f_no, f_date, origin,
                   destination, day_of_query, combined_df, dbTouched, raisedAt>>

\* Lines 146-155: parse the date, connect, read the clock.
Connect ==
    /\ pc = "l146"
    /\ \E connects \in BOOLEAN :
         IF ~ParseDate(f_date).ok
           THEN /\ Raise("parse", "time data does not match format")
                /\ UNCHANGED <<dbTouched, day_of_query>>
         ELSE IF ~HasConnectionDetails(environ)
           THEN /\ Raise("connect", "Missing database connection details")
                /\ UNCHANGED <<dbTouched, day_of_query>>
         ELSE IF ~connects
           THEN /\ Raise("connect", "pyodbc.Error")
                /\ dbTouched' = {"connect"}
                /\ UNCHANGED day_of_query
         ELSE /\ dbTouched' = {"connect"}
              /\ day_of_query' = today
              /\ pc' = "l157"
              /\ UNCHANGED <<raisedAt, result>>
    /\ UNCHANGED <<today, environ, storeVars, seen, quiet, f_no, f_date, origin,
                   destination, combined_df>>

\* Lines 157-174 when a query fails.
FetchFails ==
    /\ pc = "l157"
    /\ Raise("fetch", "pandas.errors.DatabaseError")
    /\ dbTouched' = dbTouched \cup {"fetch"}
    /\ UNCHANGED <<today, environ, storeVars, seen, quiet, f_no, f_date, origin,
                   destination, day_of_query, combined_df>>

\* Lines 157-398 on the rows the database holds.
FetchAndRender(dbs) ==
    /\ pc = "l157"
    /\ \E db \in dbs :
         LET merged == Merged(ScheduleQuery(db, origin, destination, f_no,
                                            day_of_query),
                              Pax_load(db, day_of_query))
             f_date_dt == ParseDate(f_date)
             combined == Combined(db, f_no, f_date_dt.day, origin, destination,
                                  day_of_query)
             daily_data == DailyData(combined)
         IN  IF AstypeRaises(merged)
               THEN /\ Raise("reconcile", "could not convert string to float")
                    /\ UNCHANGED combined_df
             ELSE IF ~f_date_dt.isDate
               THEN /\ Raise("reconcile", "unsupported operand type(s) for -")
                    /\ UNCHANGED combined_df
             ELSE /\ combined_df' = combined
                  /\ result' = IF Empty(daily_data) THEN Placeholder("nodata")
                               ELSE Chart(daily_data, day_of_query)
                  /\ pc' = "done"
                  /\ UNCHANGED raisedAt
    /\ dbTouched' = dbTouched \cup {"fetch"}
    /\ UNCHANGED <<today, environ, storeVars, seen, quiet, f_no, f_date, origin,
                   destination, day_of_query>>

-----------------------------------------------------------------------------
(* Specifications *)

TickIdle ==
    /\ pc = "idle"
    /\ f_no = Unset
    /\ f_date = UnsetDate
    /\ origin = Unset
    /\ destination = Unset
    /\ day_of_query = 0
    /\ combined_df = {}
    /\ dbTouched = {}
    /\ raisedAt = "none"
    /\ result = Placeholder("pending")
    /\ seen = {}
    /\ quiet = TRUE

\* The process as it starts: the store holds the defaults (lines 16-21).
Init ==
    /\ today = Today0
    /\ current_flight_data = DefaultFlightData(Today0)
    /\ environ \in {EnvKeys, EnvKeys \ {"DB_PASSWORD"}}
    /\ response = 0
    /\ calls = 0
    /\ lastCall = [kind |-> "none", data |-> NoData, day |-> Today0,
                   prevComplete |-> FALSE]
    /\ TickIdle

Next ==
    \/ \E body \in Bodies : update_data(body)
    \/ reset_data
    \/ AdvanceDay
    \/ ReadFlightNo
    \/ ReadFlightDate
    \/ ReadOrigin
    \/ ReadDestination
    \/ CheckComplete
    \/ Connect
    \/ FetchFails
    \/ FetchAndRender(SpecDatabases)

Spec == Init /\ [][Next]_vars

\* The queries the pipeline is run on.
PipeDates ==
    {IsoDate(Today0 - 3), IsoDate(Today0 - 1), IsoDateTime(Today0),
     IsoDate(Today0 + 1), IsoDate(Today0 + WindowDays + 2), BadDate, NumDate,
     EmptyDate}

PipeQueries ==
    {[flight_no |-> "F1", flight_date |-> d, flight_origin |-> "O1",
      flight_destination |-> "D1"] : d \in PipeDates}
        \cup {[flight_no |-> "F1", flight_date |-> IsoDate(Today0 + 1),
               flight_origin |-> "", flight_destination |-> "D1"]}

\* The store holds some query an earlier POST left there.
PipeInit ==
    /\ today = Today0
    /\ current_flight_data \in PipeQueries
    /\ environ \in {EnvKeys} \cup {EnvKeys \ {k} : k \in EnvKeys}
    /\ response = 200
    /\ calls = 0
    /\ lastCall = [kind |-> "update", data |-> current_flight_data,
                   day |-> Today0, prevComplete |-> FALSE]
    /\ TickIdle

PipeNext ==
    \/ AdvanceDay
    \/ ReadFlightNo
    \/ ReadFlightDate
    \/ ReadOrigin
    \/ ReadDestination
    \/ CheckComplete
    \/ Connect
    \/ FetchFails
    \/ FetchAndRender(PipeDatabases)

SpecPipe == PipeInit /\ [][PipeNext]_vars

-----------------------------------------------------------------------------
(* Properties *)

\* The tuple the running tick works with.
TickQuery ==
    [flight_no |-> f_no, flight_date |-> f_date, flight_origin |-> origin,
     flight_destination |-> destination]

\* The tick has read all four fields.
ReadsDone == pc \in {"l142", "l146", "l157", "done"}

NoDatabaseWork ==
    /\ dbTouched = {}
    /\ combined_df = {}
    /\ raisedAt = "none"
    /\ day_of_query = 0

\* C1: a tick that read at least one empty field returns the "Waiting for
\* flight data..." placeholder and neither connects to the database nor
\* fetches nor reconciles, whatever the configuration is.
C1_IncompleteQueryWaits ==
    (ReadsDone /\ ~Complete(TickQuery)) =>
        /\ NoDatabaseWork
        /\ pc \in {"l142", "done"}
        /\ pc = "done" => result = Placeholder("waiting")

C1_Witness ==
    /\ pc = "done"
    /\ ~Complete(TickQuery)
    /\ f_no # ""
    /\ HasConnectionDetails(environ)
    /\ result = Placeholder("waiting")

\* What the most recent successful call wrote, from the call alone: the keys
\* of an update-data body, each missing key defaulted; the defaults otherwise.
C2_Written ==
    LET data == lastCall.data
        isUpdate == lastCall.kind = "update"
    IN  [flight_no |->
             IF isUpdate /\ data.flight_no # Absent
                 THEN data.flight_no ELSE "",
         flight_date |->
             IF isUpdate /\ data.flight_date # AbsentDate
                 THEN data.flight_date ELSE IsoDate(lastCall.day),
         flight_origin |->
             IF isUpdate /\ data.flight_origin # Absent
                 THEN data.flight_origin ELSE "",
         flight_destination |->
             IF isUpdate /\ data.flight_destination # Absent
                 THEN data.flight_destination ELSE ""]

C2_OnlyFlightNo ==
    /\ lastCall.kind = "update"
    /\ lastCall.data.flight_no # Absent
    /\ lastCall.data.flight_date = AbsentDate
    /\ lastCall.data.flight_origin = Absent
    /\ lastCall.data.flight_destination = Absent

\* C2: the store holds exactly what the most recent successful POST wrote
\* (an update-data body with every missing key defaulted, the date to the ISO
\* date of the day of the call; the defaults after reset-data or before any
\* call), a failed update-data leaves it as it was, and a tick that runs after
\* a body with only flight_no renders the waiting placeholder.
C2_StoreHoldsLastWrite ==
    /\ current_flight_data = C2_Written
    /\ (pc = "done" /\ quiet /\ C2_OnlyFlightNo) =>
           result = Placeholder("waiting")

C2_Witness ==
    /\ pc = "done"
    /\ quiet
    /\ C2_OnlyFlightNo
    /\ lastCall.prevComplete
    /\ lastCall.day > Today0
    /\ current_flight_data.flight_origin = ""
    /\ result = Placeholder("waiting")

\* C9: the four fields a tick works with are each the field of some value the
\* store held during the reads, and they make up the stored value itself
\* when no write fell between the reads; with a write between the reads the
\* tuple can be one that the store never held (C9_TornRead).
C9_FieldsComeFromStoredValues ==
    pc = "l142" =>
        /\ \A k \in Keys : \E s \in seen : TickQuery[k] = s[k]
        /\ quiet => TickQuery = current_flight_data

C9_TornRead ==
    /\ pc = "l142"
    /\ TickQuery \notin seen
    /\ Cardinality(seen) = 2

Charted == pc = "done" /\ result.kind = "chart"

Actuals == {r \in combined_df : r.Data_From = "Actual"}
Preds == {r \in combined_df : r.Data_From = "Pred"}

\* The day the tick's query names.
QueryDate == ParseDate(f_date).day

\* C3: a tick with a complete query ends in exactly one of three outcomes: the
\* error placeholder with the exception's text if and only if parsing the
\* date, connecting, fetching or reconciling raised; the "No data found"
\* placeholder if and only if nothing raised and no record passed the filters;
\* a chart otherwise. No exception leaves update_graph, and the next tick can
\* start.
C3_ThreeOutcomes ==
    (pc = "done" /\ Complete(TickQuery)) =>
        /\ result.kind \in {"error", "nodata", "chart"}
        /\ result.kind = "error" <=> raisedAt # "none"
        /\ result.kind = "error" => result.text # ""
        /\ result.kind = "nodata" <=> (raisedAt = "none" /\ combined_df = {})
        /\ result.kind = "chart" <=> (raisedAt = "none" /\ combined_df # {})
        /\ ENABLED ReadFlightNo

C3_Witness ==
    /\ pc = "done"
    /\ Complete(TickQuery)
    /\ raisedAt = "reconcile"
    /\ result = Caught("could not convert string to float")
    /\ dbTouched = {"connect", "fetch"}

\* C4 (as claimed): with one of the four configuration values absent, a tick
\* with a complete query yields a chart of the synthetic series, 15
\* consecutive days from the query date.
C4_MissingConfigYieldsSyntheticChart ==
    (pc = "done" /\ Complete(TickQuery) /\ ParseDate(f_date).isDate
        /\ ~HasConnectionDetails(environ)) =>
        /\ result.kind = "chart"
        /\ result.daily_data.index = [i \in 1..WindowDays |-> QueryDate + i - 1]

\* C5 (as claimed): every record charted has the flight number, the origin
\* and the destination of the tick's query.
C5_ChartedRecordsMatchQuery ==
    Charted =>
        \A r \in combined_df :
            /\ r.FltNo = f_no
            /\ r.Origin = origin
            /\ r.Destination = destination

\* C6 (as claimed): every record charted has its date between the query date
\* minus 15 days and the query date.
C6_RecordsInsideWindow ==
    Charted =>
        \A r \in combined_df :
            QueryDate - WindowDays <= r.Date /\ r.Date <= QueryDate

\* C6 (amended): an Actual record has its date from the query date minus 15
\* days up to the day before the tick's today, a Pred record from the tick's
\* today up to the query date; so every record is inside the window when the
\* query date is between yesterday and 15 days ahead.
C6_RecordsInsideSplitWindow ==
    Charted =>
        \A r \in combined_df :
            /\ r.Data_From = "Actual" =>
                   (QueryDate - WindowDays <= r.Date /\ r.Date < day_of_query)
            /\ r.Data_From = "Pred" =>
                   (day_of_query <= r.Date /\ r.Date <= QueryDate)
            /\ (day_of_query - 1 <= QueryDate
                    /\ QueryDate <= day_of_query + WindowDays) =>
                   (QueryDate - WindowDays <= r.Date /\ r.Date <= QueryDate)

C6_Witness ==
    /\ Charted
    /\ Actuals # {}
    /\ Preds # {}
    /\ \E r \in Actuals : r.Date = QueryDate - WindowDays

RECURSIVE C7_Total(_, _)
C7_Total(rows, col) ==
    IF rows = {} THEN 0
    ELSE LET r == CHOOSE x \in rows : TRUE
         IN  (IF r[col].k = "num" THEN r[col].n ELSE 0)
                 + C7_Total(rows \ {r}, col)

C7_LastActual == CHOOSE d \in {r.Date : r \in Actuals} :
                     \A r \in Actuals : r.Date <= d
C7_FirstPred == CHOOSE d \in {r.Date : r \in Preds} :
                    \A r \in Preds : d <= r.Date

C7_Bridge(m, name) ==
    [name |-> name,
     x |-> <<C7_LastActual, C7_FirstPred>>,
     y |-> <<Num(C7_Total({r \in Actuals : r.Date = C7_LastActual}, m)),
             Num(C7_Total({r \in Preds : r.Date = C7_FirstPred}, m))>>]

C7_Bridges(name) == {t \in result.figure.traces : t.name = name}

C7_SeriesNames ==
    (IF Actuals # {} THEN {"Actual Weight", "Actual Volume"} ELSE {})
        \cup (IF Preds # {} THEN {"Predicted Weight", "Predicted Volume"}
              ELSE {})

\* C7: in a chart with records of both provenances there is exactly one
\* bridge segment per metric, from the latest Actual date with the Actual sum
\* of that date to the earliest Pred date with the Pred sum of that date; with
\* one provenance absent there is no bridge segment, and the series rendered
\* are those of the provenance present.
C7_BridgeSegments ==
    Charted =>
        /\ IF Actuals # {} /\ Preds # {}
             THEN /\ C7_Bridges("Weight Transition")
                        = {C7_Bridge("Weight", "Weight Transition")}
                  /\ C7_Bridges("Volume Transition")
                        = {C7_Bridge("Volume", "Volume Transition")}
             ELSE /\ C7_Bridges("Weight Transition") = {}
                  /\ C7_Bridges("Volume Transition") = {}
        /\ {t.name : t \in result.figure.traces}
               \ {"Weight Transition", "Volume Transition"} = C7_SeriesNames

\* A chart whose bridge starts on an Actual date that two records share.
C7_Witness ==
    /\ Charted
    /\ Preds # {}
    /\ Cardinality({r \in Actuals : r.Date = C7_LastActual}) = 2
    /\ C7_Bridges("Weight Transition")
           = {C7_Bridge("Weight", "Weight Transition")}

\* C8 (as claimed): a chart carries the "Today" line and annotation only if
\* today lies between the earliest and the latest date of the series.
C8_TodayMarkerOnlyInRange ==
    LET index == result.daily_data.index
    IN  (Charted /\ (day_of_query < index[1]
                        \/ day_of_query > index[Len(index)])) =>
            /\ result.figure.shapes = {}
            /\ result.figure.annotations = {}

\* C10: with today read once per tick, every Actual record has a date before
\* it and every Pred record a date from it on; so no date has both an Actual
\* and a Pred value, and a bridge segment runs from a date to a later one.
C10_ProvenanceSplitsAtToday ==
    Charted =>
        /\ \A r \in Actuals : r.Date < day_of_query
        /\ \A r \in Preds : r.Date >= day_of_query
        /\ \A i \in 1..Len(result.daily_data.index) :
               LET d == result.daily_data.index[i]
                   cell == result.daily_data.cell
               IN  ~(/\ "Actual" \in result.daily_data.columns
                     /\ "Pred" \in result.daily_data.columns
                     /\ cell["Weight", "Actual", d].k = "num"
                     /\ cell["Weight", "Pred", d].k = "num")
        /\ \A t \in result.figure.traces :
               t.name \in {"Weight Transition", "Volume Transition"} =>
                   t.x[1] < t.x[2]

\* A chart with a bridge segment, drawn by a tick that read today after
\* midnight had passed.
C10_Witness ==
    /\ Charted
    /\ day_of_query = Today0 + 1
    /\ C7_Bridges("Volume Transition") # {}
    /\ \E r \in Actuals : r.Date = Today0

====
